---- MODULE Spec2Model ----
(***************************************************************************)
(* Shape-level model of scikit_tt/solvers/sle.py: the ALS and MALS sweep   *)
(* controllers, the four stack builders, the micro-system assemblers and   *)
(* the two core updates.  A dense array is modelled by its shape (a        *)
(* sequence of axis lengths); a TT core additionally carries the kind of   *)
(* factor it holds, a content id and the id of the buffer storing it.      *)
(* Indices are 0-based as in the source.                                   *)
(***************************************************************************)
EXTENDS Integers, Sequences, FiniteSets, TLC

\* ------------------------------------------------------------------ bounds
MaxOrder == 3
MaxRank == 2
MaxRepeats == 2
MaxSigma == 3

\* np.infty, the default of max_rank ("no cap")
np_infty == 1000000

VARIABLES heap, solution, cfg, stacks, pc, i, current_iteration,
          nextId, overwritten, lastSvd, sweepLog, halfSweeps, touched, err, inputs0

vars == <<heap, solution, cfg, stacks, pc, i, current_iteration,
          nextId, overwritten, lastSvd, sweepLog, halfSweeps, touched, err, inputs0>>

\* ------------------------------------------------------- array arithmetic
Min(a, b) == IF a <= b THEN a ELSE b

RECURSIVE Size(_)
\* number of elements of an array of the given shape
Size(shape) == IF shape = <<>> THEN 1 ELSE Head(shape) * Size(Tail(shape))

RECURSIVE DropAxes(_, _, _)
\* `shape` without the axes whose 0-based position is in the set ax; pos is
\* the position of the head of `shape`
DropAxes(shape, ax, pos) ==
    IF shape = <<>> THEN <<>>
    ELSE (IF pos \in ax THEN <<>> ELSE <<Head(shape)>>) \o DropAxes(Tail(shape), ax, pos + 1)

Ok(shape) == [err |-> "", shape |-> shape]
Raise(kind) == [err |-> kind, shape |-> <<>>]

\* contraction of two arrays given by shape: the contracted axes must have
\* equal lengths; the result keeps a's free axes followed by b's free axes.
\* An operand that is None (an unwritten stack slot) has no axis to contract.
Contract(a, b, ax, bx) ==
    IF a.err # "" THEN a
    ELSE IF b.err # "" THEN b
    ELSE IF \E j \in 1..Len(ax) : ax[j] + 1 > Len(a.shape) \/ bx[j] + 1 > Len(b.shape)
         THEN Raise("IndexError")
    ELSE IF \E j \in 1..Len(ax) : a.shape[ax[j] + 1] # b.shape[bx[j] + 1]
         THEN Raise("ValueError")
    ELSE Ok(DropAxes(a.shape, {ax[j] : j \in 1..Len(ax)}, 0)
            \o DropAxes(b.shape, {bx[j] : j \in 1..Len(bx)}, 0))

\* np.tensordot(a, b, axes=(ax, bx)): both operands are evaluated, once,
\* before the contraction
Tensordot(a, b, ax, bx) ==
    CHOOSE t \in {Contract(operands[1], operands[2], ax, bx) : operands \in {<<a, b>>}} : TRUE

\* arr.reshape(new): the element counts must agree
Reshape(a, new) ==
    CHOOSE t \in {IF arr.err # "" THEN arr
                  ELSE IF Size(arr.shape) # Size(new) THEN Raise("ValueError")
                  ELSE Ok(new) : arr \in {a}} : TRUE

\* ------------------------------------------------------------ TT objects
NoCore == [shape |-> <<>>, kind |-> "none", cid |-> 0, buf |-> 0]

\* tt.cores[k]; an index outside the list raises IndexError
CoreAt(tt, k) == IF k \in 0..(tt.order - 1) THEN tt.cores[k] ELSE NoCore
HasCore(tt, k) == k \in 0..(tt.order - 1)

\* tt.cores[k][:, :, 0, :] on shapes: needs a 4-axis array with a non-empty
\* third axis
Slice0(tt, k) ==
    IF ~HasCore(tt, k) THEN Raise("IndexError")
    ELSE LET s == tt.cores[k].shape IN
         IF Len(s) # 4 \/ s[3] < 1 THEN Raise("IndexError")
         ELSE Ok(<<s[1], s[2], s[4]>>)

\* tt.cores[k] as a whole array
Whole(tt, k) ==
    IF ~HasCore(tt, k) THEN Raise("IndexError") ELSE Ok(tt.cores[k].shape)

\* a stack slot: None until written.  np.tensordot sees None as a 0-d array,
\* so reading an unwritten slot fails on its first contracted axis.
NoSlot == [set |-> FALSE, shape |-> <<>>, deps |-> <<>>]
SlotAt(stack, k) == IF k \in DOMAIN stack THEN stack[k] ELSE NoSlot
SlotArr(stack, k) ==
    IF k \notin DOMAIN stack THEN Raise("IndexError") ELSE Ok(stack[k].shape)

\* the slot after a chain of assignments stack[k] = t1; stack[k] = t2; ...:
\* the last contraction that succeeded stays in the slot
StoreChain(stack, k, chain, deps) ==
    LET n == Len(chain) IN
    IF chain[n].err = ""
    THEN [stack EXCEPT ![k] = [set |-> TRUE, shape |-> chain[n].shape, deps |-> deps]]
    ELSE IF n >= 2 /\ chain[n - 1].err = ""
    THEN [stack EXCEPT ![k] = [set |-> TRUE, shape |-> chain[n - 1].shape, deps |-> <<>>]]
    ELSE IF n >= 3 /\ chain[n - 2].err = ""
    THEN [stack EXCEPT ![k] = [set |-> TRUE, shape |-> chain[n - 2].shape, deps |-> <<>>]]
    ELSE stack

\* the error of the first contraction of the chain that raised ("" for none)
FirstErr(chain) ==
    IF chain[1].err # "" THEN chain[1].err
    ELSE IF chain[2].err # "" THEN chain[2].err
    ELSE chain[Len(chain)].err

\* a builder's chain of contractions, each evaluated once: the error it
\* raised and the stack as it is left
RunChain(stack, k, chain, deps) ==
    CHOOSE built \in {[err |-> FirstErr(c), stack |-> StoreChain(stack, k, c, deps)] :
                        c \in {chain}} : TRUE

\* --------------------------------------------------------- stack builders
\* each returns the error raised ("" for none) and the stack as it is left

construct_stack_left_op(k, stack_left_op, operator, sol) ==
    IF k = 0
    THEN [err |-> "", stack |-> [stack_left_op EXCEPT ![k] =
                                    [set |-> TRUE, shape |-> <<1, 1, 1>>, deps |-> <<>>]]]
    ELSE LET t1 == Tensordot(SlotArr(stack_left_op, k - 1), Slice0(sol, k - 1), <<0>>, <<0>>)
             t2 == Tensordot(t1, Whole(operator, k - 1), <<0, 2>>, <<0, 2>>)
             t3 == Tensordot(t2, Slice0(sol, k - 1), <<0, 2>>, <<0, 1>>)
         IN  RunChain(stack_left_op, k, <<t1, t2, t3>>,
                      Append(SlotAt(stack_left_op, k - 1).deps, CoreAt(sol, k - 1).cid))

construct_stack_left_rhs(k, stack_left_rhs, right_hand_side, sol) ==
    IF k = 0
    THEN [err |-> "", stack |-> [stack_left_rhs EXCEPT ![k] =
                                    [set |-> TRUE, shape |-> <<1, 1>>, deps |-> <<>>]]]
    ELSE LET t1 == Tensordot(SlotArr(stack_left_rhs, k - 1), Slice0(right_hand_side, k - 1),
                             <<0>>, <<0>>)
             t2 == Tensordot(t1, Slice0(sol, k - 1), <<0, 1>>, <<0, 1>>)
         IN  RunChain(stack_left_rhs, k, <<t1, t2>>,
                      Append(SlotAt(stack_left_rhs, k - 1).deps, CoreAt(sol, k - 1).cid))

construct_stack_right_op(k, stack_right_op, operator, sol) ==
    IF k = operator.order - 1
    THEN [err |-> "", stack |-> [stack_right_op EXCEPT ![k] =
                                    [set |-> TRUE, shape |-> <<1, 1, 1>>, deps |-> <<>>]]]
    ELSE LET t1 == Tensordot(Slice0(sol, k + 1), SlotArr(stack_right_op, k + 1), <<2>>, <<2>>)
             t2 == Tensordot(Whole(operator, k + 1), t1, <<1, 3>>, <<1, 3>>)
             t3 == Tensordot(Slice0(sol, k + 1), t2, <<1, 2>>, <<1, 3>>)
         IN  RunChain(stack_right_op, k, <<t1, t2, t3>>,
                      <<CoreAt(sol, k + 1).cid>> \o SlotAt(stack_right_op, k + 1).deps)

construct_stack_right_rhs(k, stack_right_rhs, right_hand_side, sol) ==
    IF k = right_hand_side.order - 1
    THEN IF k \in DOMAIN stack_right_rhs
         THEN [err |-> "", stack |-> [stack_right_rhs EXCEPT ![k] =
                                         [set |-> TRUE, shape |-> <<1, 1>>, deps |-> <<>>]]]
         ELSE [err |-> "IndexError", stack |-> stack_right_rhs]
    ELSE LET t1 == Tensordot(Slice0(sol, k + 1), SlotArr(stack_right_rhs, k + 1), <<2>>, <<1>>)
             t2 == Tensordot(Slice0(right_hand_side, k + 1), t1, <<1, 2>>, <<1, 2>>)
         IN  RunChain(stack_right_rhs, k, <<t1, t2>>,
                      <<CoreAt(sol, k + 1).cid>> \o SlotAt(stack_right_rhs, k + 1).deps)

\* ------------------------------------------------- micro-system assemblers
RankAt(tt, k) == IF k \in DOMAIN tt.ranks THEN tt.ranks[k] ELSE 0
HasRanks(tt, ks) == \A k \in ks : k \in DOMAIN tt.ranks
HasDims(tt, ks) == \A k \in ks : k \in DOMAIN tt.row_dims

\* arr.transpose(perm): perm must name every axis of arr once
Transpose(a, n) ==
    CHOOSE t \in {IF arr.err # "" THEN arr
                  ELSE IF Len(arr.shape) # n THEN Raise("ValueError")
                  ELSE arr : arr \in {a}} : TRUE

construct_micro_matrix_als(k, stack_left_op, stack_right_op, operator, sol) ==
    LET t1 == Tensordot(SlotArr(stack_left_op, k), Whole(operator, k), <<1>>, <<0>>)
        t2 == Tensordot(t1, SlotArr(stack_right_op, k), <<4>>, <<1>>)
        t3 == Transpose(t2, 6)
    IN  IF ~HasRanks(sol, {k, k + 1}) \/ ~HasDims(operator, {k})
        THEN (IF t3.err # "" THEN t3 ELSE Raise("IndexError"))
        ELSE Reshape(t3, <<sol.ranks[k] * operator.row_dims[k] * sol.ranks[k + 1],
                           sol.ranks[k] * operator.col_dims[k] * sol.ranks[k + 1]>>)

construct_micro_matrix_mals(k, stack_left_op, stack_right_op, operator, sol) ==
    LET t1 == Tensordot(SlotArr(stack_left_op, k), Whole(operator, k), <<1>>, <<0>>)
        t2 == Tensordot(t1, Whole(operator, k + 1), <<4>>, <<0>>)
        t3 == Tensordot(t2, SlotArr(stack_right_op, k + 1), <<6>>, <<1>>)
        t4 == Transpose(t3, 8)
    IN  IF ~HasRanks(sol, {k, k + 2}) \/ ~HasDims(operator, {k, k + 1})
        THEN (IF t4.err # "" THEN t4 ELSE Raise("IndexError"))
        ELSE Reshape(t4,
               <<sol.ranks[k] * operator.row_dims[k] * operator.row_dims[k + 1] * sol.ranks[k + 2],
                 sol.ranks[k] * operator.col_dims[k] * operator.col_dims[k + 1] * sol.ranks[k + 2]>>)

construct_micro_rhs_als(k, stack_left_rhs, stack_right_rhs, right_hand_side, sol) ==
    LET t1 == Tensordot(SlotArr(stack_left_rhs, k), Slice0(right_hand_side, k), <<0>>, <<0>>)
        t2 == Tensordot(t1, SlotArr(stack_right_rhs, k), <<2>>, <<0>>)
    IN  IF ~HasRanks(sol, {k, k + 1}) \/ ~HasDims(right_hand_side, {k})
        THEN (IF t2.err # "" THEN t2 ELSE Raise("IndexError"))
        ELSE Reshape(t2, <<sol.ranks[k] * right_hand_side.row_dims[k] * sol.ranks[k + 1], 1>>)

construct_micro_rhs_mals(k, stack_left_rhs, stack_right_rhs, right_hand_side, sol) ==
    LET t1 == Tensordot(SlotArr(stack_left_rhs, k), Slice0(right_hand_side, k), <<0>>, <<0>>)
        t2 == Tensordot(t1, Slice0(right_hand_side, k + 1), <<2>>, <<0>>)
        t3 == Tensordot(t2, SlotArr(stack_right_rhs, k + 1), <<3>>, <<0>>)
    IN  IF ~HasRanks(sol, {k, k + 2}) \/ ~HasDims(right_hand_side, {k, k + 1})
        THEN (IF t3.err # "" THEN t3 ELSE Raise("IndexError"))
        ELSE Reshape(t3, <<sol.ranks[k] * right_hand_side.row_dims[k]
                           * right_hand_side.row_dims[k + 1] * sol.ranks[k + 2], 1>>)

\* ------------------------------------------------------ dense primitives
\* np.linalg.solve / la.solve / la.lu_factor + la.lu_solve on shapes: a square
\* matrix and a right-hand side with as many rows; the result has b's shape
SolveShape(a, b) ==
    IF a.err # "" THEN a
    ELSE IF b.err # "" THEN b
    ELSE IF Len(a.shape) # 2 \/ a.shape[1] # a.shape[2] THEN Raise("LinAlgError")
    ELSE IF Len(b.shape) # 2 \/ b.shape[1] # a.shape[1] THEN Raise("ValueError")
    ELSE Ok(b.shape)

\* shape of q in la.qr(m, mode='economic') with a full-mode variant
QrFull(m) == <<m[1], m[1]>>
QrEconomic(m) == <<m[1], Min(m[1], m[2])>>

\* shape of q in la.rq(m, mode='economic')
RqEconomic(m) == <<Min(m[1], m[2]), m[2]>>

\* number of singular values of la.svd(m, full_matrices=False)
SvdCount(m) == Min(m[1], m[2])

RECURSIVE NonIncreasing(_, _)
\* the sequences of K values out of 0..top that never increase
NonIncreasing(K, top) ==
    IF K = 0 THEN {<<>>}
    ELSE UNION {{<<v>> \o rest : rest \in NonIncreasing(K - 1, v)} : v \in 0..top}

\* all outcomes of the singular values of a K-column decomposition: la.svd
\* returns them sorted, largest first
Sigmas(K) == NonIncreasing(K, MaxSigma)

\* s / s[0] > threshold, the threshold given as num/den; 0/0 is nan and
\* compares false
AboveThreshold(sj, s0, threshold) ==
    s0 # 0 /\ sj * threshold.den > threshold.num * s0

\* len(x[:stop]) for a Python slice of a length-n axis
SliceLen(n, stop) == IF stop >= 0 THEN Min(n, stop) ELSE IF n + stop > 0 THEN n + stop ELSE 0

\* "rank reduction" of update_core_mals: the singular values that stay
RankReduction(sigma, threshold, max_rank) ==
    LET byThreshold ==
            IF threshold.num # 0
            THEN SelectSeq(sigma, LAMBDA sj : AboveThreshold(sj, sigma[1], threshold))
            ELSE sigma
        n == IF max_rank # np_infty
             THEN SliceLen(Len(byThreshold), Min(Len(byThreshold), max_rank))
             ELSE Len(byThreshold)
    IN  SubSeq(byThreshold, 1, n)

\* ------------------------------------------------------------ core updates
SetCore(sol, k, core) == [sol EXCEPT !.cores[k] = core]
NewCore(shape, kind, id) == [shape |-> shape, kind |-> kind, cid |-> id, buf |-> id]
\* the locals of the last rank reduction: the pair it was made at, the
\* singular values s as la.svd returned them and as they were kept
NoSvd == [site |-> 0 - 1, sigma |-> <<>>, kept |-> <<>>]

\* the local solve shared by both updates (lines 445-451 and 517-523): the raw
\* solved vector is stored in solution.cores[k]; a solver string that is
\* neither 'solve' nor 'lu' matches no branch and leaves the core as it is
LocalSolve(k, micro_op, micro_rhs, sol, solver, id, outcome) ==
    LET x == SolveShape(micro_op, micro_rhs) IN
    IF solver \notin {"solve", "lu"} THEN [err |-> "", sol |-> sol]
    ELSE IF x.err # "" THEN [err |-> x.err, sol |-> sol]
    ELSE IF outcome = "solve_fail" THEN [err |-> "LinAlgError", sol |-> sol]
    ELSE IF ~HasCore(sol, k) THEN [err |-> "IndexError", sol |-> sol]
    ELSE [err |-> "", sol |-> SetCore(sol, k, NewCore(x.shape, "raw", id))]

\* MALS backward: "if i == 0", the last iteration step
IsLastStepNever(k) == FALSE
IsLastStep(k) == k = 0

\* ALS backward: "if i > 0", the sites that are factorized
IsFactorizedSite(k) == k > 0

\* lines 459-486: the orthonormalization of the solved core
orthonormalize_als(k, solved, direction, id, outcome) ==
    LET s1 == solved.sol
        fail(kind, so, ov) == [err |-> kind, sol |-> so, over |-> ov, svd |-> NoSvd]
    IN
    IF solved.err # "" THEN fail(solved.err, s1, {})
    ELSE IF ~HasCore(s1, k) \/ ~HasRanks(s1, {k, k + 1}) \/ ~HasDims(s1, {k})
         THEN fail("IndexError", s1, {})
    ELSE
    LET core == s1.cores[k]
        r0 == s1.ranks[k]
        r1 == s1.ranks[k + 1]
        n == s1.row_dims[k]
    IN
    IF direction = "forward" THEN
        LET m == Reshape(Ok(core.shape), <<r0 * n, r1>>) IN
        IF m.err # "" THEN fail(m.err, s1, {})
        ELSE IF outcome = "factor_fail" THEN fail("LinAlgError", s1, {core.buf})
        ELSE LET q == QrEconomic(m.shape)
                 new == q[2]
                 c == Reshape(Ok(q), <<r0, n, 1, new>>)
                 s2 == [s1 EXCEPT !.ranks[k + 1] = new]
             IN  IF c.err # "" THEN fail(c.err, s2, {core.buf})
                 ELSE [err |-> "", sol |-> SetCore(s2, k, NewCore(c.shape, "q", id + 1)),
                       over |-> {core.buf}, svd |-> NoSvd]
    ELSE IF IsFactorizedSite(k) THEN
        LET m == Reshape(Ok(core.shape), <<r0, n * r1>>) IN
        IF m.err # "" THEN fail(m.err, s1, {})
        ELSE IF outcome = "factor_fail" THEN fail("LinAlgError", s1, {core.buf})
        ELSE LET q == RqEconomic(m.shape)
                 new == q[1]
                 c == Reshape(Ok(q), <<new, n, 1, r1>>)
                 s2 == [s1 EXCEPT !.ranks[k] = new]
             IN  IF c.err # "" THEN fail(c.err, s2, {core.buf})
                 ELSE [err |-> "", sol |-> SetCore(s2, k, NewCore(c.shape, "rq", id + 1)),
                       over |-> {core.buf}, svd |-> NoSvd]
    ELSE
        LET c == Reshape(Ok(core.shape), <<r0, n, 1, r1>>) IN
        IF c.err # "" THEN fail(c.err, s1, {})
        ELSE [err |-> "", sol |-> SetCore(s1, k, [core EXCEPT !.shape = c.shape]),
              over |-> {}, svd |-> NoSvd]

\* lines 445-451, then 459-486: the solve runs once and the orthonormalization
\* works on its result
update_core_als(k, micro_op, micro_rhs, sol, solver, direction, id, outcome) ==
    CHOOSE res \in {orthonormalize_als(k, solved, direction, id, outcome) :
                       solved \in {LocalSolve(k, micro_op, micro_rhs, sol, solver, id, outcome)}} : TRUE

\* lines 529-579: the decomposition of the solved pair of cores
decompose_mals(k, solved, direction, threshold, max_rank, id, outcome, sigma) ==
    LET s1 == solved.sol
        fail(kind, so, ov) == [err |-> kind, sol |-> so, over |-> ov, svd |-> NoSvd]
    IN
    IF solved.err # "" THEN fail(solved.err, s1, {})
    ELSE IF ~HasCore(s1, k) \/ ~HasRanks(s1, {k, k + 2}) \/ ~HasDims(s1, {k, k + 1})
         THEN fail("IndexError", s1, {})
    ELSE
    LET core == s1.cores[k]
        r0 == s1.ranks[k]
        r2 == s1.ranks[k + 2]
        n0 == s1.row_dims[k]
        n1 == s1.row_dims[k + 1]
        m == Reshape(Ok(core.shape), <<r0 * n0, n1 * r2>>)
    IN
    IF m.err # "" THEN fail(m.err, s1, {})
    ELSE IF outcome = "factor_fail" THEN fail("LinAlgError", s1, {core.buf})
    ELSE IF threshold.num # 0 /\ Len(sigma) = 0 THEN fail("IndexError", s1, {core.buf})
    ELSE
    LET kept == RankReduction(sigma, threshold, max_rank)
        new == Len(kept)
        s2 == [s1 EXCEPT !.ranks[k + 1] = new]
        svd == [site |-> k, sigma |-> sigma, kept |-> kept]
    IN
    IF direction = "forward" THEN
        [err |-> "", sol |-> SetCore(s2, k, NewCore(<<r0, n0, 1, new>>, "u", id + 1)),
         over |-> {core.buf}, svd |-> svd]
    ELSE
        LET s3 == SetCore(s2, k + 1, NewCore(<<new, n1, 1, r2>>, "v", id + 1)) IN
        [err |-> "",
         sol |-> IF IsLastStep(k) THEN SetCore(s3, k, NewCore(<<r0, n0, 1, new>>, "us", id + 2))
                 ELSE s3,
         over |-> {core.buf}, svd |-> svd]

\* lines 517-523, then 529-579: the solve runs once and the decomposition
\* works on its result
update_core_mals(k, micro_op, micro_rhs, sol, solver, direction, threshold, max_rank, id, outcome, sigma) ==
    CHOOSE res \in {decompose_mals(k, solved, direction, threshold, max_rank, id, outcome, sigma) :
                       solved \in {LocalSolve(k, micro_op, micro_rhs, sol, solver, id, outcome)}} : TRUE

\* ------------------------------------------------------------- the inputs
\* a TT tensor with the given per-site mode sizes and internal bond rank; its
\* cores' storage ids start at base
MkTT(order, row, col, rank, base) ==
    LET ranks == [k \in 0..order |-> IF k = 0 \/ k = order THEN 1 ELSE rank] IN
    [order |-> order,
     row_dims |-> [k \in 0..(order - 1) |-> row[k]],
     col_dims |-> [k \in 0..(order - 1) |-> col[k]],
     ranks |-> ranks,
     cores |-> [k \in 0..(order - 1) |->
                   [shape |-> <<ranks[k], row[k], col[k], ranks[k + 1]>>,
                    kind |-> "init", cid |-> base + k, buf |-> base + k]]]

NoTT == MkTT(0, <<>>, <<>>, 1, 0)

\* TT.copy(): an independent deep copy, every core in storage of its own
copy(tt, id) ==
    [tt EXCEPT !.cores = [k \in DOMAIN tt.cores |-> [tt.cores[k] EXCEPT !.buf = id + k]]]

\* the mode sizes the calls are drawn from (the same at every site of a call)
ModeSizes == {1, 2}

Sites == 0..(MaxOrder - 1)
Uniform(n) == [k \in Sites |-> n]
Ones == Uniform(1)
Bump(dims, site) == [dims EXCEPT ![site] = dims[site] + 1]

Heap(oo, ro, go, opRow, opCol, rhsRow, guessRow, auxRank, guessRank) ==
    [operator |-> MkTT(oo, opRow, opCol, auxRank, 1),
     right_hand_side |-> MkTT(ro, rhsRow, Ones, auxRank, MaxOrder + 1),
     initial_guess |-> MkTT(go, guessRow, Ones, guessRank, 2 * MaxOrder + 1),
     solution |-> NoTT]

Zero == [num |-> 0, den |-> 1]
Half == [num |-> 1, den |-> 2]
MinusHalf == [num |-> 0 - 1, den |-> 2]

\* the calls the documentation allows
ValidConfigs ==
    {[alg |-> "als", repeats |-> rep, solver |-> "solve", threshold |-> Zero,
      max_rank |-> np_infty] : rep \in 0..MaxRepeats}
    \cup
    {[alg |-> "mals", repeats |-> rep, solver |-> "solve", threshold |-> th, max_rank |-> mr] :
        rep \in 0..MaxRepeats, th \in {Zero, Half}, mr \in {np_infty, 1, MaxRank}}
    \cup
    {[alg |-> "als", repeats |-> 1, solver |-> "lu", threshold |-> Zero, max_rank |-> np_infty],
     [alg |-> "mals", repeats |-> 1, solver |-> "lu", threshold |-> Half, max_rank |-> MaxRank]}

\* calls with one configuration value outside the documented range
InvalidConfigs ==
    {[alg |-> a, repeats |-> 1, solver |-> "cg", threshold |-> Zero, max_rank |-> np_infty] :
        a \in {"als", "mals"}}
    \cup
    {[alg |-> a, repeats |-> 0 - 1, solver |-> "solve", threshold |-> Zero, max_rank |-> np_infty] :
        a \in {"als", "mals"}}
    \cup
    {[alg |-> "mals", repeats |-> 1, solver |-> "solve", threshold |-> MinusHalf,
      max_rank |-> np_infty]}
    \cup
    {[alg |-> "mals", repeats |-> 1, solver |-> "solve", threshold |-> Zero, max_rank |-> mr] :
        mr \in {0, 0 - 1}}

ConsistentHeaps ==
    {Heap(o, o, o, Uniform(n), Uniform(n), Uniform(n), Uniform(n), MaxRank, r) :
        o \in 1..MaxOrder, n \in ModeSizes, r \in {1, MaxRank}}

\* the three orders disagree
OrderFaultHeaps ==
    {Heap(oo, ro, go, Uniform(n), Uniform(n), Uniform(n), Uniform(n), MaxRank, r) :
        <<oo, ro, go>> \in {t \in (1..MaxOrder) \X (1..MaxOrder) \X (1..MaxOrder) :
                               ~(t[1] = t[2] /\ t[2] = t[3])},
        n \in ModeSizes, r \in {1, MaxRank}}

\* one mode size of one tensor disagrees at one site: operator rows (f = 1),
\* operator columns (2), right-hand side (3), initial guess (4)
DimFaultHeaps ==
    {Heap(t[1], t[1], t[1],
          IF f = 1 THEN Bump(Uniform(n), t[2]) ELSE Uniform(n),
          IF f = 2 THEN Bump(Uniform(n), t[2]) ELSE Uniform(n),
          IF f = 3 THEN Bump(Uniform(n), t[2]) ELSE Uniform(n),
          IF f = 4 THEN Bump(Uniform(n), t[2]) ELSE Uniform(n), MaxRank, r) :
        t \in {u \in (1..MaxOrder) \X Sites : u[2] < u[1]},
        n \in ModeSizes, r \in {1, MaxRank}, f \in 1..4}

InconsistentHeaps == OrderFaultHeaps \cup DimFaultHeaps

InitWith(h, c) ==
    /\ heap = h
    /\ inputs0 = h
    /\ cfg = c
    /\ solution = "none"
    /\ stacks = [left_op |-> <<>>, left_rhs |-> <<>>, right_op |-> <<>>, right_rhs |-> <<>>]
    /\ pc = "entry"
    /\ i = 0
    /\ current_iteration = 0
    /\ nextId = 3 * MaxOrder + 1
    /\ overwritten = {}
    /\ lastSvd = NoSvd
    /\ sweepLog = [fwd |-> <<>>, bwd |-> <<>>]
    /\ halfSweeps = [fwd |-> 0, bwd |-> 0]
    /\ touched = [left_op |-> {}, left_rhs |-> {}, right_op |-> {}, right_rhs |-> {}]
    /\ err = [kind |-> "", at |-> ""]

Init == \E h \in ConsistentHeaps, c \in ValidConfigs : InitWith(h, c)

InitAny ==
    \/ \E h \in ConsistentHeaps, c \in ValidConfigs \cup InvalidConfigs : InitWith(h, c)
    \/ \E h \in InconsistentHeaps, c \in ValidConfigs : c.repeats = 1 /\ InitWith(h, c)

\* ------------------------------------------------------ sweep controllers
\* "solution = initial_guess.copy()"; the variant binds the name to the
\* caller's object instead
DefineSolutionAlias(h, id) == [ref |-> "initial_guess", heap |-> h]
DefineSolution(h, id) ==
    [ref |-> "solution", heap |-> [h EXCEPT !.solution = copy(h.initial_guess, id)]]

\* "while current_iteration <= repeats"
LoopContinuesOnceMore(it, repeats) == it <= repeats + 1
LoopContinues(it, repeats) == it <= repeats

\* last index of the initial right-stack loop: range(order - 1, -1, -1) in
\* als, range(order - 1, 0, -1) in mals
InitLast(alg) == IF alg = "als" THEN 0 ELSE 1

\* last index of the first half sweep: range(order) in als, range(order - 1)
\* in mals
FwdLast(alg, order) == IF alg = "als" THEN order - 1 ELSE order - 2

\* "if i < operator.order - 1" in als, "if i < operator.order - 2" in mals
FwdSolvesAll(alg, k, order) == TRUE
FwdSolves(alg, k, order) == IF alg = "als" THEN k < order - 1 ELSE k < order - 2

\* first index of the second half sweep
BwdFirst(alg, order) == IF alg = "als" THEN order - 1 ELSE order - 2

\* the right-stack slot rebuilt at step k of the second half sweep, and the
\* right-stack slot a micro system at k reads
RightSlotSame(alg, k) == k
RightSlot(alg, k) == IF alg = "als" THEN k ELSE k + 1

Sol == heap[solution]
Order == heap.operator.order

\* an exception leaves the call; err keeps its type and the part of the loop
\* body that raised it
Fails(kind, at) ==
    /\ pc' = "error"
    /\ err' = [kind |-> kind, at |-> at]
    /\ UNCHANGED <<i, current_iteration, sweepLog, halfSweeps>>

\* lines 37-44 / 124-131: the solution and the four empty stacks
Enter ==
    /\ pc = "entry"
    /\ LET d == DefineSolution(heap, nextId) IN
        /\ solution' = d.ref
        /\ heap' = d.heap
    /\ nextId' = nextId + heap.initial_guess.order
    /\ stacks' = [left_op |-> [k \in 0..(Order - 1) |-> NoSlot],
                  left_rhs |-> [k \in 0..(Order - 1) |-> NoSlot],
                  right_op |-> [k \in 0..(Order - 1) |-> NoSlot],
                  right_rhs |-> [k \in 0..(Order - 1) |-> NoSlot]]
    /\ IF Order - 1 >= InitLast(cfg.alg)
       THEN pc' = "init_right" /\ i' = Order - 1 /\ current_iteration' = current_iteration
       ELSE pc' = "loop" /\ i' = i /\ current_iteration' = 1
    /\ UNCHANGED <<cfg, overwritten, lastSvd, sweepLog, halfSweeps, touched, err, inputs0>>

\* the two right-stack builders at slot k, as every loop body calls them
BuildRight(k, t0, after) ==
    \E a \in {construct_stack_right_op(k, stacks.right_op, heap.operator, Sol)},
       b \in {construct_stack_right_rhs(k, stacks.right_rhs, heap.right_hand_side, Sol)} :
        IF a.err # ""
        THEN /\ stacks' = [stacks EXCEPT !.right_op = a.stack]
             /\ touched' = t0
             /\ Fails(a.err, "stack")
        ELSE IF b.err # ""
        THEN /\ stacks' = [stacks EXCEPT !.right_op = a.stack, !.right_rhs = b.stack]
             /\ touched' = [t0 EXCEPT !.right_op = @ \cup {k}]
             /\ Fails(b.err, "stack")
        ELSE /\ stacks' = [stacks EXCEPT !.right_op = a.stack, !.right_rhs = b.stack]
             /\ touched' = [t0 EXCEPT !.right_op = @ \cup {k}, !.right_rhs = @ \cup {k}]
             /\ after
             /\ err' = err

\* the singular values are locals of update_core_mals: gone once it returned
\* and the controller moved on
DropLocals == lastSvd' = NoSvd

\* lines 46-49 / 133-136: one pass of the initial right-stack loop
InitRight ==
    /\ pc = "init_right"
    /\ BuildRight(i, touched,
          /\ IF i - 1 >= InitLast(cfg.alg)
             THEN pc' = "init_right" /\ i' = i - 1 /\ current_iteration' = current_iteration
             ELSE pc' = "loop" /\ i' = i /\ current_iteration' = 1
          /\ UNCHANGED <<sweepLog, halfSweeps>>)
    /\ DropLocals
    /\ UNCHANGED <<heap, solution, cfg, nextId, overwritten, inputs0>>

\* lines 55 / 142: the loop test; the call returns when it fails
LoopHead ==
    /\ pc = "loop"
    /\ IF ~LoopContinues(current_iteration, cfg.repeats)
       THEN /\ pc' = "done"
            /\ UNCHANGED <<i, current_iteration, sweepLog, halfSweeps>>
       ELSE IF FwdLast(cfg.alg, Order) >= 0
       THEN /\ pc' = "fwd_stack"
            /\ i' = 0
            /\ sweepLog' = [fwd |-> <<>>, bwd |-> <<>>]
            /\ UNCHANGED <<current_iteration, halfSweeps>>
       ELSE \* both ranges are empty: the repeat does nothing
            /\ pc' = "loop"
            /\ current_iteration' = current_iteration + 1
            /\ halfSweeps' = [fwd |-> halfSweeps.fwd + 1, bwd |-> halfSweeps.bwd + 1]
            /\ sweepLog' = [fwd |-> <<>>, bwd |-> <<>>]
            /\ i' = i
    /\ DropLocals
    /\ UNCHANGED <<heap, solution, cfg, stacks, nextId, overwritten, touched, err, inputs0>>

\* control after step k of the first half sweep
AfterFwd(k) ==
    IF k + 1 <= FwdLast(cfg.alg, Order)
    THEN /\ pc' = "fwd_stack" /\ i' = k + 1
         /\ UNCHANGED <<current_iteration, halfSweeps>>
    ELSE /\ pc' = "bwd_stack" /\ i' = BwdFirst(cfg.alg, Order)
         /\ halfSweeps' = [halfSweeps EXCEPT !.fwd = @ + 1]
         /\ current_iteration' = current_iteration

\* control after step k of the second half sweep; line 86 / 173 at its end
AfterBwd(k) ==
    IF k - 1 >= 0
    THEN /\ pc' = "bwd_stack" /\ i' = k - 1
         /\ UNCHANGED <<current_iteration, halfSweeps>>
    ELSE /\ pc' = "loop" /\ i' = k
         /\ halfSweeps' = [halfSweeps EXCEPT !.bwd = @ + 1]
         /\ current_iteration' = current_iteration + 1

\* lines 60-62 / 147-149: the left stacks at site i
FwdStack ==
    /\ pc = "fwd_stack"
    /\ \E a \in {construct_stack_left_op(i, stacks.left_op, heap.operator, Sol)},
          b \in {construct_stack_left_rhs(i, stacks.left_rhs, heap.right_hand_side, Sol)},
          t0 \in {IF i = 0
                  THEN [left_op |-> {}, left_rhs |-> {}, right_op |-> {}, right_rhs |-> {}]
                  ELSE touched} :
           IF a.err # ""
           THEN /\ stacks' = [stacks EXCEPT !.left_op = a.stack]
                /\ touched' = t0
                /\ Fails(a.err, "stack")
           ELSE IF b.err # ""
           THEN /\ stacks' = [stacks EXCEPT !.left_op = a.stack, !.left_rhs = b.stack]
                /\ touched' = [t0 EXCEPT !.left_op = @ \cup {i}]
                /\ Fails(b.err, "stack")
           ELSE /\ stacks' = [stacks EXCEPT !.left_op = a.stack, !.left_rhs = b.stack]
                /\ touched' = [t0 EXCEPT !.left_op = @ \cup {i}, !.left_rhs = @ \cup {i}]
                /\ err' = err
                /\ sweepLog' = sweepLog
                /\ IF FwdSolves(cfg.alg, i, Order)
                   THEN pc' = "fwd_solve" /\ UNCHANGED <<i, current_iteration, halfSweeps>>
                   ELSE AfterFwd(i)
    /\ DropLocals
    /\ UNCHANGED <<heap, solution, cfg, nextId, overwritten, inputs0>>

\* the outcomes of one local solve and factorization: both succeed, the solve
\* raises (a singular micro matrix), or the factorization raises
Outcomes == {"ok", "solve_fail", "factor_fail"}

\* number of singular values the update at pair k will see
SvdWidth(sol, k) ==
    IF HasRanks(sol, {k, k + 2}) /\ HasDims(sol, {k, k + 1})
    THEN SvdCount(<<sol.ranks[k] * sol.row_dims[k], sol.row_dims[k + 1] * sol.ranks[k + 2]>>)
    ELSE 0

\* the singular values an update at step i may meet (none in als)
SigmaChoices == IF cfg.alg = "als" THEN {<<>>} ELSE Sigmas(SvdWidth(Sol, i))

\* lines 65-70, 78-83 / 152-157, 165-170: assemble the micro system at i and
\* update the solution
SolveStep(direction, after) ==
    /\ \E micro_op \in {IF cfg.alg = "als"
                         THEN construct_micro_matrix_als(i, stacks.left_op, stacks.right_op,
                                                         heap.operator, Sol)
                         ELSE construct_micro_matrix_mals(i, stacks.left_op, stacks.right_op,
                                                          heap.operator, Sol)},
          micro_rhs \in {IF cfg.alg = "als"
                          THEN construct_micro_rhs_als(i, stacks.left_rhs, stacks.right_rhs,
                                                       heap.right_hand_side, Sol)
                          ELSE construct_micro_rhs_mals(i, stacks.left_rhs, stacks.right_rhs,
                                                        heap.right_hand_side, Sol)} :
        IF micro_op.err # "" \/ micro_rhs.err # ""
        THEN /\ Fails(IF micro_op.err # "" THEN micro_op.err ELSE micro_rhs.err, "assemble")
             /\ UNCHANGED <<heap, nextId, overwritten, lastSvd>>
        ELSE \E outcome \in Outcomes :
             \E sigma \in (IF outcome = "ok" THEN SigmaChoices ELSE {<<>>}) :
             \E res \in
                 {IF cfg.alg = "als"
                  THEN update_core_als(i, micro_op, micro_rhs, Sol, cfg.solver, direction,
                                       nextId, outcome)
                  ELSE update_core_mals(i, micro_op, micro_rhs, Sol, cfg.solver, direction,
                                        cfg.threshold, cfg.max_rank, nextId, outcome, sigma)} :
             /\ heap' = [heap EXCEPT ![solution] = res.sol]
             /\ nextId' = nextId + 3
             /\ overwritten' = overwritten \cup res.over
             /\ lastSvd' = res.svd
             /\ IF res.err # ""
                THEN Fails(res.err, "update")
                ELSE /\ err' = err
                     /\ sweepLog' = IF direction = "forward"
                                    THEN [sweepLog EXCEPT !.fwd = Append(@, i)]
                                    ELSE [sweepLog EXCEPT !.bwd = Append(@, i)]
                     /\ after
    /\ UNCHANGED <<solution, cfg, stacks, touched, inputs0>>

FwdSolve ==
    /\ pc = "fwd_solve"
    /\ SolveStep("forward", AfterFwd(i))

\* lines 74-76 / 161-163: the right stacks of step i
BwdStack ==
    /\ pc = "bwd_stack"
    /\ BuildRight(RightSlot(cfg.alg, i),
                  IF i = BwdFirst(cfg.alg, Order)
                  THEN [left_op |-> {}, left_rhs |-> {}, right_op |-> {}, right_rhs |-> {}]
                  ELSE touched,
                  /\ pc' = "bwd_solve"
                  /\ UNCHANGED <<i, current_iteration, sweepLog, halfSweeps>>)
    /\ DropLocals
    /\ UNCHANGED <<heap, solution, cfg, nextId, overwritten, inputs0>>

BwdSolve ==
    /\ pc = "bwd_solve"
    /\ SolveStep("backward", AfterBwd(i))

Next == Enter \/ InitRight \/ LoopHead \/ FwdStack \/ FwdSolve \/ BwdStack \/ BwdSolve

Spec == Init /\ [][Next]_vars

\* calls with inconsistent tensors or an undocumented configuration included
SpecAny == InitAny /\ [][Next]_vars

\* the call is one sequential thread: a step that can be taken is taken
FairSpec == Init /\ [][Next]_vars /\ WF_vars(Next)

\* ================================================================ claims
Guess0 == inputs0.initial_guess
Returned == pc = "done"

\* every core of tt has the shape its ranks and mode sizes give it, and the
\* chain is open
ChainInvariant(tt) ==
    /\ tt.ranks[0] = 1
    /\ tt.ranks[tt.order] = 1
    /\ \A k \in 0..(tt.order - 1) :
          tt.cores[k].shape = <<tt.ranks[k], tt.row_dims[k], 1, tt.ranks[k + 1]>>

\* C1: when ALS or MALS returns (any repeats >= 0, consistent inputs), every
\* core i of the solution has shape (ranks[i], row_dim[i], 1, ranks[i+1]), so
\* adjacent bonds agree, and ranks[0] = ranks[order] = 1; the boundary ranks
\* are 1 at every point of the call, no step writes them.
C1_ChainAtReturn ==
    /\ Returned => ChainInvariant(Sol)
    /\ solution # "none" => Sol.ranks[0] = 1 /\ Sol.ranks[Sol.order] = 1

\* a MALS call on three sites returned after a sweep that changed a bond rank
C1_Witness ==
    /\ Returned /\ cfg.alg = "mals" /\ cfg.repeats >= 1 /\ Order = 3
    /\ Sol.ranks[1] # Guess0.ranks[1]
    /\ Sol.cores[0].kind = "us"

\* storage ids of the cores of tt
Bufs(tt) == {tt.cores[k].buf : k \in DOMAIN tt.cores}
InputBufs == Bufs(inputs0.operator) \cup Bufs(inputs0.right_hand_side) \cup Bufs(Guess0)

\* C2: during a call the operator, the right-hand side and the caller's
\* initial guess keep their cores and ranks, no buffer of theirs is overwritten
\* in place, and the solution's cores live in storage none of them uses.
C2_InputsNeverMutated ==
    /\ heap.operator = inputs0.operator
    /\ heap.right_hand_side = inputs0.right_hand_side
    /\ heap.initial_guess = inputs0.initial_guess
    /\ overwritten \cap InputBufs = {}
    /\ solution # "none" => Bufs(Sol) \cap InputBufs = {}

\* a call with the 'lu' solver returned after overwriting buffers in place
C2_Witness ==
    /\ Returned /\ cfg.solver = "lu" /\ cfg.repeats >= 1 /\ Order >= 2
    /\ overwritten # {}
    /\ Sol.cores # Guess0.cores

\* tt holds exactly the ranks and the core contents of the tensor g
SameTensor(tt, g) ==
    /\ tt.order = g.order
    /\ tt.ranks = g.ranks
    /\ \A k \in DOMAIN g.cores :
          /\ tt.cores[k].shape = g.cores[k].shape
          /\ tt.cores[k].kind = g.cores[k].kind
          /\ tt.cores[k].cid = g.cores[k].cid

\* C3: with repeats = 0 ALS and MALS run no half sweep and no update, and what
\* they return has the initial guess's ranks and core contents.
C3_ZeroRepeatsIdentity ==
    (Returned /\ cfg.repeats = 0) =>
        /\ SameTensor(Sol, Guess0)
        /\ halfSweeps = [fwd |-> 0, bwd |-> 0]
        /\ nextId = 3 * MaxOrder + 1 + Guess0.order
        /\ overwritten = {}

\* a MALS call with repeats = 0 returned, its right stacks built
C3_Witness ==
    /\ Returned /\ cfg.repeats = 0 /\ cfg.alg = "mals" /\ Order = 3
    /\ stacks.right_op[1].set

\* the values of sigma whose ratio to the largest is above the threshold
Above(sigma, threshold) ==
    {j \in 1..Len(sigma) : sigma[1] # 0 /\ sigma[j] * threshold.den > threshold.num * sigma[1]}

\* C4: after every MALS update at a pair i the number of singular values kept
\* is what ranks[i+1] is set to and is at most the max_rank the call was
\* given; with threshold > 0 every value kept has value / max_value >
\* threshold; with threshold = 0 nothing is dropped for its size and with
\* max_rank unbounded nothing is dropped for the count.
C4_RankReduction ==
    lastSvd.site >= 0 =>
        LET n == Len(lastSvd.kept) IN
        /\ Sol.ranks[lastSvd.site + 1] = n
        /\ n <= cfg.max_rank
        /\ cfg.threshold.num > 0 =>
              \A j \in 1..n :
                 /\ lastSvd.sigma[1] > 0
                 /\ lastSvd.kept[j] * cfg.threshold.den > cfg.threshold.num * lastSvd.sigma[1]
        /\ cfg.threshold.num = 0 =>
              n = IF cfg.max_rank = np_infty THEN Len(lastSvd.sigma)
                  ELSE Min(Len(lastSvd.sigma), cfg.max_rank)
        /\ cfg.max_rank = np_infty =>
              n = IF cfg.threshold.num = 0 THEN Len(lastSvd.sigma)
                  ELSE Cardinality(Above(lastSvd.sigma, cfg.threshold))

\* the same for the calls whose max_rank is not negative: the only way past
\* the cap is the slice u[:, :max_rank] of a negative max_rank
RankReductionWithinCap == cfg.max_rank >= 0 => C4_RankReduction

\* C5: in ALS no bond rank of the solution ever exceeds the initial guess's,
\* after every forward and backward update and at return; the core the last
\* update stored has the updated rank as its bond (right bond after a forward
\* update, left bond after a backward one).
C5_AlsRanksNeverGrow ==
    (cfg.alg = "als" /\ solution # "none") =>
        /\ \A j \in 0..Sol.order : Sol.ranks[j] <= Guess0.ranks[j]
        /\ (pc = "fwd_stack" /\ i > 0) =>
              Sol.cores[i - 1].shape[4] = Sol.ranks[i]
        /\ (pc = "bwd_stack" /\ i < Order - 1) =>
              Sol.cores[i + 1].shape[1] = Sol.ranks[i + 1]

\* an ALS call returned with a bond rank below the initial guess's
C5_Witness ==
    /\ Returned /\ cfg.alg = "als" /\ cfg.repeats >= 1 /\ Order = 3
    /\ Sol.ranks[1] < Guess0.ranks[1]
    /\ Sol.ranks[2] < Guess0.ranks[2]

\* the three tensors agree in order and, site by site, in mode sizes
InputsConsistent ==
    LET A == inputs0.operator
        b == inputs0.right_hand_side
        x == inputs0.initial_guess
    IN  /\ A.order = b.order
        /\ A.order = x.order
        /\ \A k \in 0..(A.order - 1) :
              A.row_dims[k] = b.row_dims[k] /\ A.col_dims[k] = x.row_dims[k]

StackNames == {"left_op", "left_rhs", "right_op", "right_rhs"}
NoStackBuilt == \A s \in StackNames : \A k \in DOMAIN stacks[s] : ~stacks[s][k].set
NoCoreWritten == solution # "none" => SameTensor(Sol, Guess0)

\* C6: a call whose tensors disagree in order or in a mode size never builds
\* a stack slot, never writes a core or a rank of the solution and never
\* returns: it raises before any of this.
C6_FailFastOnInconsistentInputs ==
    ~InputsConsistent => (NoStackBuilt /\ NoCoreWritten /\ ~Returned)

\* the configuration values the documentation allows
ConfigValid ==
    /\ cfg.solver \in {"solve", "lu"}
    /\ cfg.repeats >= 0
    /\ cfg.threshold.num >= 0
    /\ cfg.max_rank > 0

\* C7: a call with an unrecognized solver, a negative repeats, a negative
\* threshold or a non-positive max_rank does no partial work: no stack slot
\* is built, no micro system is solved, no core or rank of the solution is
\* written, and the call does not return a result.
C7_ConfigErrorsAtEntry ==
    ~ConfigValid =>
        /\ NoStackBuilt
        /\ NoCoreWritten
        /\ sweepLog = [fwd |-> <<>>, bwd |-> <<>>]
        /\ ~Returned

\* the call is over: it returned or an exception left it
Over == pc \in {"done", "error"}

NFwd == IF cfg.alg = "als" THEN Order - 1 ELSE IF Order >= 2 THEN Order - 2 ELSE 0
NBwd == IF cfg.alg = "als" THEN Order ELSE Order - 1

\* C9: in every repeat the forward half sweep updates sites (pairs) 0, 1, ...
\* in increasing order up to order-2 in ALS and order-3 in MALS, never the
\* last site (the last pair); the backward half sweep that follows updates
\* order-1, ..., 0 in ALS and order-2, ..., 0 in MALS in decreasing order,
\* every one of them, and starts only after the forward one is complete.
C9_SweepOrder ==
    /\ Len(sweepLog.fwd) <= NFwd
    /\ \A j \in 1..Len(sweepLog.fwd) : sweepLog.fwd[j] = j - 1
    /\ Len(sweepLog.bwd) <= NBwd
    /\ \A j \in 1..Len(sweepLog.bwd) : sweepLog.bwd[j] = NBwd - j
    /\ pc = "fwd_solve" => (i = Len(sweepLog.fwd) /\ i < NFwd /\ sweepLog.bwd = <<>>)
    /\ pc \in {"bwd_stack", "bwd_solve"} =>
          (Len(sweepLog.fwd) = NFwd /\ i = NBwd - 1 - Len(sweepLog.bwd))
    /\ (pc \in {"loop", "done"} /\ halfSweeps.bwd >= 1) =>
          (Len(sweepLog.fwd) = NFwd /\ Len(sweepLog.bwd) = NBwd)

\* an ALS call on three sites returned: its last repeat updated 0, 1 forward
\* and 2, 1, 0 backward
C9_Witness ==
    /\ Returned /\ cfg.alg = "als" /\ Order = 3 /\ cfg.repeats = 2
    /\ sweepLog = [fwd |-> <<0, 1>>, bwd |-> <<2, 1, 0>>]

\* content ids of the solution's cores lo..hi, in order
Cids(lo, hi) == [j \in 1..(hi - lo + 1) |-> CoreAt(Sol, lo + j - 1).cid]

\* the right-stack slot the micro system at step i reads
ReadRight == IF cfg.alg = "als" THEN i ELSE i + 1

\* C10: when a micro system is assembled at step i the two left slots i and
\* the two right slots it reads (i in ALS, i+1 in MALS) have been written in
\* this call, hold the contraction of the solution's current cores 0..i-1 and
\* of its current cores right of the window, carry the solution's current
\* ranks as bond sizes, and none of the cores they were built from is a raw,
\* unfactorized solve result.
C10_StacksUpToDate ==
    pc \in {"fwd_solve", "bwd_solve"} =>
        LET r == ReadRight
            A == heap.operator
            b == heap.right_hand_side
            left_op == SlotAt(stacks.left_op, i)
            left_rhs == SlotAt(stacks.left_rhs, i)
            right_op == SlotAt(stacks.right_op, r)
            right_rhs == SlotAt(stacks.right_rhs, r)
        IN  /\ left_op.set /\ left_rhs.set /\ right_op.set /\ right_rhs.set
            /\ left_op.deps = Cids(0, i - 1)
            /\ left_rhs.deps = Cids(0, i - 1)
            /\ right_op.deps = Cids(r + 1, Sol.order - 1)
            /\ right_rhs.deps = Cids(r + 1, Sol.order - 1)
            /\ left_op.shape = <<RankAt(Sol, i), RankAt(A, i), RankAt(Sol, i)>>
            /\ left_rhs.shape = <<RankAt(b, i), RankAt(Sol, i)>>
            /\ right_op.shape = <<RankAt(Sol, r + 1), RankAt(A, r + 1), RankAt(Sol, r + 1)>>
            /\ right_rhs.shape = <<RankAt(b, r + 1), RankAt(Sol, r + 1)>>
            /\ \A k \in (0..(i - 1)) \cup ((r + 1)..(Sol.order - 1)) :
                  CoreAt(Sol, k).kind # "raw"

\* the same for the calls whose tensors agree in order and mode sizes: only a
\* call that should have been refused reads a slot out of step with the
\* solution
StacksUpToDateIfConsistent == InputsConsistent => C10_StacksUpToDate

\* ids are handed out three per update, so the cores written by the last
\* backward half-sweep are those numbered from here on
LastBwdFrom == nextId - 3 * NBwd

\* the core that holds the solved values themselves: ALS stores the solved
\* array, MALS stores u @ diag(s)
CarriesMagnitude(core) == core.kind = (IF cfg.alg = "als" THEN "raw" ELSE "us")

\* the factor with orthonormal rows: q of la.rq in ALS, v of la.svd in MALS
OrthonormalRows(core) == core.kind = (IF cfg.alg = "als" THEN "rq" ELSE "v")

\* C11: when ALS or MALS returns after repeats >= 1, core 0 is the one core
\* that carries the magnitude of the solution (ALS: the solved values, MALS:
\* the left factor scaled by the singular values), every core 1..order-1 is
\* the orthonormal-row factor written by the last backward half-sweep, and
\* no core is left as the 2-axis solved vector.
C11_CoreRolesAtReturn ==
    (Returned /\ cfg.repeats >= 1) =>
        /\ Sol.order >= 1
        /\ CarriesMagnitude(CoreAt(Sol, 0))
        /\ CoreAt(Sol, 0).cid >= LastBwdFrom
        /\ \A k \in 1..(Sol.order - 1) :
              /\ OrthonormalRows(CoreAt(Sol, k))
              /\ CoreAt(Sol, k).cid >= LastBwdFrom
        /\ \A k \in 0..(Sol.order - 1) : Len(CoreAt(Sol, k).shape) = 4

\* the same for the calls that solve something at every site: a documented
\* configuration, tensors that agree, and at least one pair of cores in MALS
CoreRolesAtReturnOfProperCalls ==
    (ConfigValid /\ InputsConsistent /\ (cfg.alg = "mals" => Order >= 2))
        => C11_CoreRolesAtReturn

\* a forward half-sweep has just ended: its last step handed over to the
\* first step of the backward one
FwdEnded == pc = "bwd_stack" /\ i = (IF cfg.alg = "als" THEN Order - 1 ELSE Order - 2)

\* a backward half-sweep has just ended: control is back at the loop test
BwdEnded == pc = "loop" /\ halfSweeps.bwd >= 1

AllSlots == 0..(Order - 1)

\* C12: in each forward and each backward half-sweep of ALS and of MALS every
\* slot 0..order-1 of the two left stacks and of the two right stacks is
\* written anew.
C12_BothStackSetsOverwritten ==
    (FwdEnded \/ BwdEnded) => \A s \in StackNames : touched[s] = AllSlots

\* C12 as the code has it: a forward half-sweep writes the left stacks only,
\* slots 0..order-1 in ALS and 0..order-2 in MALS; a backward half-sweep
\* writes the right stacks only, slots order-1..0 in ALS and order-1..1 in MALS
C12_OneStackSetPerHalfSweep ==
    /\ FwdEnded =>
          /\ touched.left_op = (IF cfg.alg = "als" THEN AllSlots ELSE 0..(Order - 2))
          /\ touched.left_rhs = touched.left_op
          /\ touched.right_op = {} /\ touched.right_rhs = {}
    /\ BwdEnded =>
          /\ touched.right_op = (IF cfg.alg = "als" THEN AllSlots ELSE 1..(Order - 1))
          /\ touched.right_rhs = touched.right_op
          /\ touched.left_op = {} /\ touched.left_rhs = {}

\* a MALS backward half-sweep over three cores has ended with right slots 1
\* and 2 rewritten and slot 0 never written
C12_Witness ==
    /\ BwdEnded /\ cfg.alg = "mals" /\ Order = 3
    /\ touched.right_op = {1, 2}
    /\ ~SlotAt(stacks.right_op, 0).set

====
